---------------------------- MODULE Spec2Model ----------------------------
(***************************************************************************)
(* BeePlan course scheduler: the scheduling engine (scheduler.py), the     *)
(* GUI handlers that drive it (main.py) and the schedule import that       *)
(* writes into its grid.                                                    *)
(*                                                                          *)
(* Strings that the code inspects character by character (course codes)    *)
(* are sequences of one-character strings.  Slot indices are 0-based as in *)
(* the code: time slot i is time_slots[i + 1].                              *)
(***************************************************************************)
EXTENDS Integers, Sequences, FiniteSets, TLC

VARIABLES
    courses,                \* BeePlanApp.courses / Scheduler.courses
    rooms,                  \* BeePlanApp.rooms / Scheduler.rooms
    instructors,            \* the instructor list given to Scheduler.__init__
    schedule,               \* Scheduler.schedule[day][time_slot]
    conflicts,              \* Scheduler.conflicts
    schedule_table,         \* BeePlanApp.schedule_table[row][col]
    pc,                     \* position of the GUI thread
    sorted_courses,         \* generate_schedule: local sorted_courses
    course_idx,             \* generate_schedule: index of the next course
    instructor_daily_hours, \* generate_schedule: local instructor_daily_hours
    success,                \* handle_generate: local success
    ops,                    \* number of handler calls made so far
    fresh_run,              \* the running/last generate_schedule began on a
                            \* freshly constructed engine
    last_op,                \* the handler that completed last
    engine2,                \* a second Scheduler, constructed with the same
                            \* collections, and what its generate_schedule
                            \* returned
    returned                \* what the query called last returned, while its
                            \* caller holds it

vars == <<courses, rooms, instructors, schedule, conflicts, schedule_table,
          pc, sorted_courses, course_idx, instructor_daily_hours, success,
          ops, fresh_run, last_op, engine2, returned>>

\* Python's None.
None == [none |-> TRUE]

\* No query result is held.
NoCall == [call |-> "none"]

(***************************************************************************)
(* Bounds of the model.                                                     *)
(***************************************************************************)
MaxCourses == 5     \* longest course collection
MaxImport == 2      \* most slot entries in an imported schedule file
MaxOps == 2         \* most handler calls on one engine

(***************************************************************************)
(* Program constants.                                                       *)
(***************************************************************************)
days == <<"Monday", "Tuesday", "Wednesday", "Thursday", "Friday">>

time_slots == <<"08:30 - 09:20", "09:30 - 10:20", "10:30 - 11:20",
                "11:30 - 12:20", "13:20 - 14:10", "14:20 - 15:10",
                "15:20 - 16:10", "16:20 - 17:10">>

DailyTheoryLimit == 4

LabCapacityLimit == 40

DaySet == {days[n] : n \in 1..Len(days)}

TimeSlotSet == {time_slots[n] : n \in 1..Len(time_slots)}

NumSlots == Len(days) * Len(time_slots)

\* The (day, index) visited at position p of the nested loops
\* "for day in self.days: for i, time_slot in enumerate(self.time_slots)".
DayAt(p) == days[(p \div Len(time_slots)) + 1]

IndexAt(p) == p % Len(time_slots)

SeqToSet(s) == {s[n] : n \in 1..Len(s)}

(***************************************************************************)
(* String helpers (str.replace, str.strip, str.startswith, str.upper,      *)
(* the "in" substring test).                                                *)
(***************************************************************************)
Whitespace == {" "}

replace(s, old, new) ==
    LET RECURSIVE Rep(_)
        Rep(n) == IF n > Len(s) THEN <<>>
                  ELSE (IF s[n] = old THEN new ELSE <<s[n]>>) \o Rep(n + 1)
    IN Rep(1)

strip(s) ==
    LET Inner == {n \in 1..Len(s) : s[n] \notin Whitespace}
    IN IF Inner = {} THEN <<>>
       ELSE LET lo == CHOOSE n \in Inner : \A m \in Inner : n <= m
                hi == CHOOSE n \in Inner : \A m \in Inner : n >= m
            IN SubSeq(s, lo, hi)

startswith(s, prefix) ==
    /\ Len(prefix) <= Len(s)
    /\ SubSeq(s, 1, Len(prefix)) = prefix

UpperOf(ch) ==
    CASE ch = "c" -> "C"
      [] ch = "e" -> "E"
      [] ch = "n" -> "N"
      [] ch = "g" -> "G"
      [] ch = "s" -> "S"
      [] ch = "l" -> "L"
      [] OTHER -> ch

upper(s) == [n \in 1..Len(s) |-> UpperOf(s[n])]

contains(s, sub) ==
    \E n \in 1..(Len(s) - Len(sub) + 1) : SubSeq(s, n, n + Len(sub) - 1) = sub

(***************************************************************************)
(* models.py                                                                *)
(***************************************************************************)
Course(code, instructor_id, is_lab, year) ==
    [code |-> code, instructor_id |-> instructor_id, is_lab |-> is_lab,
     year |-> year]

Room(id, capacity, is_lab) ==
    [id |-> id, capacity |-> capacity, is_lab |-> is_lab]

Instructor(id, name, availability) ==
    [id |-> id, name |-> name, availability |-> availability]

ScheduleSlot(day, time_slot) ==
    [day |-> day, time_slot |-> time_slot, course |-> None, room |-> None,
     has_conflict |-> FALSE]

(***************************************************************************)
(* scheduler.py: Scheduler.__init__                                         *)
(***************************************************************************)
\* self.instructors = {inst.id: inst for inst in instructors}
\* (a later entry with the same id replaces an earlier one).
InstructorsById(insts) ==
    [id \in {insts[n].id : n \in 1..Len(insts)} |->
        LET last == CHOOSE n \in 1..Len(insts) :
                        /\ insts[n].id = id
                        /\ \A m \in (n + 1)..Len(insts) : insts[m].id # id
        IN insts[last]]

\* The grid built by the constructor: one empty ScheduleSlot per (day, slot).
EmptySchedule ==
    [day \in DaySet |-> [time_slot \in TimeSlotSet |->
        ScheduleSlot(day, time_slot)]]

(***************************************************************************)
(* scheduler.py: the helpers of generate_schedule                           *)
(***************************************************************************)
\* sorted(self.courses, key=lambda c: (c.is_lab, c.year)) compares the keys
\* as tuples, with False < True.
\* KeyLess with the fault of a key without is_lab ("key=lambda c: c.year").
KeyLess_YearOnly(a, b) == a.year < b.year

KeyLess(a, b) ==
    \/ ~a.is_lab /\ b.is_lab
    \/ a.is_lab = b.is_lab /\ a.year < b.year

\* Python's sorted() is stable: an element goes after every element whose
\* key is not greater than its own.
RECURSIVE SortCourses(_)
SortCourses(cs) ==
    IF cs = <<>> THEN <<>>
    ELSE LET rest == SortCourses(SubSeq(cs, 1, Len(cs) - 1))
             c == cs[Len(cs)]
             before == {n \in 1..Len(rest) : ~KeyLess(c, rest[n])}
             k == IF before = {} THEN 0
                  ELSE CHOOSE n \in before : \A m \in before : m <= n
         IN SubSeq(rest, 1, k) \o <<c>> \o SubSeq(rest, k + 1, Len(rest))

\* find_theory_course with the fault of a third loop that falls back to
\* the first theory course of the lab's instructor, whatever its code.
find_theory_course_AnyCode(cs, lab_course) ==
    LET lab_code_base == strip(replace(lab_course.code, "L", <<>>))
        exact == {n \in 1..Len(cs) :
                    /\ ~cs[n].is_lab
                    /\ cs[n].code = lab_code_base
                    /\ cs[n].instructor_id = lab_course.instructor_id}
        partial == {n \in 1..Len(cs) :
                    /\ ~cs[n].is_lab
                    /\ startswith(cs[n].code, lab_code_base)
                    /\ cs[n].instructor_id = lab_course.instructor_id}
        any == {n \in 1..Len(cs) :
                    /\ ~cs[n].is_lab
                    /\ cs[n].instructor_id = lab_course.instructor_id}
        First(S) == cs[CHOOSE n \in S : \A m \in S : n <= m]
    IN IF exact # {} THEN First(exact)
       ELSE IF partial # {} THEN First(partial)
       ELSE IF any # {} THEN First(any)
       ELSE None

find_theory_course(cs, lab_course) ==
    LET lab_code_base == strip(replace(lab_course.code, "L", <<>>))
        exact == {n \in 1..Len(cs) :
                    /\ ~cs[n].is_lab
                    /\ cs[n].code = lab_code_base
                    /\ cs[n].instructor_id = lab_course.instructor_id}
        partial == {n \in 1..Len(cs) :
                    /\ ~cs[n].is_lab
                    /\ startswith(cs[n].code, lab_code_base)
                    /\ cs[n].instructor_id = lab_course.instructor_id}
        First(S) == cs[CHOOSE n \in S : \A m \in S : n <= m]
    IN IF exact # {} THEN First(exact)
       ELSE IF partial # {} THEN First(partial)
       ELSE None

\* lab_follows_theory with the fault of accepting a day on which the
\* theory course is not scheduled ("return True" as the last line).
lab_follows_theory_AnyDay(sched, day, time_index, theory_course) ==
    LET found == {i \in 0..(Len(time_slots) - 1) :
                    sched[day][time_slots[i + 1]].course = theory_course}
    IN IF found = {} THEN TRUE
       ELSE time_index > (CHOOSE i \in found : \A j \in found : i <= j)

lab_follows_theory(sched, day, time_index, theory_course) ==
    LET found == {i \in 0..(Len(time_slots) - 1) :
                    sched[day][time_slots[i + 1]].course = theory_course}
    IN IF found = {} THEN FALSE
       ELSE time_index > (CHOOSE i \in found : \A j \in found : i <= j)

\* is_instructor_available with the fault of treating an instructor missing
\* from the collection as available ("if not instructor: return True").
is_instructor_available_UnknownOk(insts, instructor_id, day) ==
    LET byId == InstructorsById(insts)
    IN IF instructor_id \notin DOMAIN byId THEN TRUE
       ELSE day \in byId[instructor_id].availability

is_instructor_available(insts, instructor_id, day) ==
    LET byId == InstructorsById(insts)
    IN IF instructor_id \notin DOMAIN byId THEN FALSE
       ELSE day \in byId[instructor_id].availability

is_room_available(sched, room, day, time_slot) ==
    sched[day][time_slot].course = None

\* find_suitable_room with the fault of keeping the last suitable room
\* ("found = room" in the loop, "return found" after it).
find_suitable_room_LastMatch(sched, rms, course, day, time_slot) ==
    LET ok == {n \in 1..Len(rms) :
                /\ course.is_lab = rms[n].is_lab
                /\ ~(course.is_lab /\ rms[n].capacity > LabCapacityLimit)
                /\ is_room_available(sched, rms[n], day, time_slot)}
    IN IF ok = {} THEN None
       ELSE rms[CHOOSE n \in ok : \A m \in ok : n >= m]

find_suitable_room(sched, rms, course, day, time_slot) ==
    LET ok == {n \in 1..Len(rms) :
                /\ course.is_lab = rms[n].is_lab
                /\ ~(course.is_lab /\ rms[n].capacity > LabCapacityLimit)
                /\ is_room_available(sched, rms[n], day, time_slot)}
    IN IF ok = {} THEN None
       ELSE rms[CHOOSE n \in ok : \A m \in ok : n <= m]

\* check_instructor_daily_limit with the fault of comparing with "<=".
check_instructor_daily_limit_OffByOne(instructor_id, day, instructor_hours) ==
    IF instructor_id \notin DOMAIN instructor_hours THEN TRUE
    ELSE IF day \notin DOMAIN instructor_hours[instructor_id] THEN TRUE
    ELSE instructor_hours[instructor_id][day] <= DailyTheoryLimit

\* check_instructor_daily_limit with the fault of a cap of three
\* ("< 3").
check_instructor_daily_limit_CapThree(instructor_id, day, instructor_hours) ==
    IF instructor_id \notin DOMAIN instructor_hours THEN TRUE
    ELSE IF day \notin DOMAIN instructor_hours[instructor_id] THEN TRUE
    ELSE instructor_hours[instructor_id][day] < DailyTheoryLimit - 1

check_instructor_daily_limit(instructor_id, day, instructor_hours) ==
    IF instructor_id \notin DOMAIN instructor_hours THEN TRUE
    ELSE IF day \notin DOMAIN instructor_hours[instructor_id] THEN TRUE
    ELSE instructor_hours[instructor_id][day] < DailyTheoryLimit

\* check_elective_constraints with the fault of comparing the course with
\* every course already on the day ("for other in self.schedule[day]
\* .values()") instead of the one in the slot.
check_elective_constraints_WholeDay(sched, course, day, time_slot) ==
    \A t \in DOMAIN sched[day] :
        LET other_course == sched[day][t].course
            course_code_upper == upper(course.code)
            other_code_upper == upper(other_course.code)
            is_ceng == contains(course_code_upper, <<"C", "E", "N", "G">>)
            is_seng == contains(course_code_upper, <<"S", "E", "N", "G">>)
            other_is_ceng == contains(other_code_upper, <<"C", "E", "N", "G">>)
            other_is_seng == contains(other_code_upper, <<"S", "E", "N", "G">>)
        IN IF other_course = None THEN TRUE
           ELSE IF course.year = 3 /\ other_course.year = 4 THEN FALSE
           ELSE IF course.year = 4 /\ other_course.year = 3 THEN FALSE
           ELSE IF (is_ceng /\ other_is_seng) \/ (is_seng /\ other_is_ceng)
                THEN FALSE
           ELSE TRUE

check_elective_constraints(sched, course, day, time_slot) ==
    LET slot == sched[day][time_slot]
        other_course == slot.course
        course_code_upper == upper(course.code)
        other_code_upper == upper(other_course.code)
        is_ceng == contains(course_code_upper, <<"C", "E", "N", "G">>)
        is_seng == contains(course_code_upper, <<"S", "E", "N", "G">>)
        other_is_ceng == contains(other_code_upper, <<"C", "E", "N", "G">>)
        other_is_seng == contains(other_code_upper, <<"S", "E", "N", "G">>)
    IN IF slot.course = None THEN TRUE
       ELSE IF course.year = 3 /\ other_course.year = 4 THEN FALSE
       ELSE IF course.year = 4 /\ other_course.year = 3 THEN FALSE
       ELSE IF (is_ceng /\ other_is_seng) \/ (is_seng /\ other_is_ceng)
            THEN FALSE
       ELSE TRUE

\* The exam-block test with the fault of counting the slots from 1
\* ("i in [5, 6]").
IsExamBlock_Shifted(day, i) == day = "Friday" /\ i \in {5, 6}

\* "if day == "Friday" and i in [4, 5]: continue"
IsExamBlock(day, i) == day = "Friday" /\ i \in {4, 5}

\* "if self.schedule[day][time_slot].course is not None: continue"
SlotIsOccupied(sched, day, time_slot) == sched[day][time_slot].course # None

(***************************************************************************)
(* scheduler.py: generate_schedule, the scan for one course                 *)
(***************************************************************************)
\* SlotPasses with the fault of leaving out both occupancy tests (the
\* "slot is free" test and the room's "is free at this time" test).
SlotPasses_NoOccupancy(sched, rms, insts, hours, course, theory_course, day, i) ==
    /\ is_instructor_available(insts, course.instructor_id, day)
    /\ ~IsExamBlock(day, i)
    /\ (course.is_lab /\ theory_course # None)
         => lab_follows_theory(sched, day, i, theory_course)
    /\ \E n \in 1..Len(rms) :
          /\ course.is_lab = rms[n].is_lab
          /\ ~(course.is_lab /\ rms[n].capacity > LabCapacityLimit)
    /\ ~course.is_lab
         => check_instructor_daily_limit(course.instructor_id, day, hours)

\* Whether (day, i) passes every check of the loop body for this course.
SlotPasses(sched, rms, insts, hours, course, theory_course, day, i) ==
    LET time_slot == time_slots[i + 1]
    IN /\ is_instructor_available(insts, course.instructor_id, day)
       /\ ~IsExamBlock(day, i)
       /\ ~SlotIsOccupied(sched, day, time_slot)
       /\ (course.is_lab /\ theory_course # None)
            => lab_follows_theory(sched, day, i, theory_course)
       /\ find_suitable_room(sched, rms, course, day, time_slot) # None
       /\ ~course.is_lab
            => check_instructor_daily_limit(course.instructor_id, day, hours)
       /\ check_elective_constraints(sched, course, day, time_slot)

\* FirstFit with the fault of nesting the loops the other way round
\* ("for i, time_slot in enumerate(self.time_slots): for day in
\* self.days"): the first passing slot index, and the first passing day
\* for it.
FirstFit_SlotMajor(sched, rms, insts, hours, course, theory_course) ==
    LET pass == {p \in 0..(NumSlots - 1) :
                    SlotPasses(sched, rms, insts, hours, course,
                               theory_course, DayAt(p), IndexAt(p))}
        Before(p, q) == \/ IndexAt(p) < IndexAt(q)
                        \/ IndexAt(p) = IndexAt(q) /\ p <= q
    IN IF pass = {} THEN -1
       ELSE CHOOSE p \in pass : \A q \in pass : Before(p, q)

\* The first position of "for day in self.days: for i, time_slot in ..."
\* that passes, or -1 when the loops end with placed = False.
FirstFit(sched, rms, insts, hours, course, theory_course) ==
    LET pass == {p \in 0..(NumSlots - 1) :
                    SlotPasses(sched, rms, insts, hours, course,
                               theory_course, DayAt(p), IndexAt(p))}
    IN IF pass = {} THEN -1
       ELSE CHOOSE p \in pass : \A q \in pass : p <= q

\* PlaceCourse with the fault of filling the following slot of the day as
\* well when it is empty (a session spanning two hours).
PlaceCourse_TwoSlots(sched, day, time_slot, course, room) ==
    LET i == CHOOSE n \in 1..Len(time_slots) : time_slots[n] = time_slot
        one == [sched EXCEPT ![day][time_slot].course = course,
                             ![day][time_slot].room = room]
    IN IF i < Len(time_slots) /\ sched[day][time_slots[i + 1]].course = None
       THEN [one EXCEPT ![day][time_slots[i + 1]].course = course,
                        ![day][time_slots[i + 1]].room = room]
       ELSE one

\* "self.schedule[day][time_slot].course = course" and ".room = room"
PlaceCourse(sched, day, time_slot, course, room) ==
    [sched EXCEPT ![day][time_slot].course = course,
                  ![day][time_slot].room = room]

\* UpdateHours with the fault of counting lab sessions too (the update
\* outside "if not course.is_lab").
UpdateHours_CountsLabs(hours, course, day) ==
    LET id == course.instructor_id
        h1 == IF id \in DOMAIN hours THEN hours
              ELSE [x \in DOMAIN hours \cup {id} |->
                       IF x = id THEN << >> ELSE hours[x]]
        h2 == IF day \in DOMAIN h1[id] THEN h1
              ELSE [h1 EXCEPT ![id] =
                       [d \in DOMAIN h1[id] \cup {day} |->
                           IF d = day THEN 0 ELSE h1[id][d]]]
    IN [h2 EXCEPT ![id][day] = @ + 1]

\* "Update instructor hours"
UpdateHours(hours, course, day) ==
    IF course.is_lab THEN hours
    ELSE LET id == course.instructor_id
             h1 == IF id \in DOMAIN hours THEN hours
                   ELSE [x \in DOMAIN hours \cup {id} |->
                            IF x = id THEN << >> ELSE hours[x]]
             h2 == IF day \in DOMAIN h1[id] THEN h1
                   ELSE [h1 EXCEPT ![id] =
                            [d \in DOMAIN h1[id] \cup {day} |->
                                IF d = day THEN 0 ELSE h1[id][d]]]
         IN [h2 EXCEPT ![id][day] = @ + 1]

\* UnplacedConflict with the fault of a tag outside the taxonomy
\* ("type": "unplaced").
UnplacedConflict_ShortTag(course) ==
    [type |-> "unplaced", course |-> course.code,
     message |-> <<"Could not place ", course.code>>]

UnplacedConflict(course) ==
    [type |-> "unplaced_course", course |-> course.code,
     message |-> <<"Could not place ", course.code>>]

(***************************************************************************)
(* scheduler.py: _validate_schedule                                         *)
(***************************************************************************)
OverlapConflict(course, day, time_slot) ==
    [type |-> "instructor_overlap", course |-> course.code,
     instructor |-> course.instructor_id, day |-> day, time |-> time_slot,
     message |-> <<"Instructor ", ToString(course.instructor_id),
                   " double-booked at ",
                   day, " ", time_slot>>]

CapacityConflict(course, room) ==
    [type |-> "capacity_violation", course |-> course.code, room |-> room.id,
     capacity |-> room.capacity,
     message |-> <<"Lab room ", room.id, " exceeds 40 student capacity">>]

\* CapacityViolated with the fault of leaving out "course.is_lab".
CapacityViolated_AnyCourse(course, room) ==
    room # None /\ room.capacity > LabCapacityLimit

\* "if room and course.is_lab and room.capacity > 40"
CapacityViolated(course, room) ==
    room # None /\ course.is_lab /\ room.capacity > LabCapacityLimit

\* The loop over days and time slots from position p on; confl is
\* self.conflicts and isched the local instructor_schedule.  (The inner
\* "room double booking" loop only executes "pass" and is left out.)
\* ValidateFrom with the fault of comparing the day only
\* ("if day == other_day:"): a second session of the instructor on a day
\* counts as a double booking.
RECURSIVE ValidateFrom_DayOnly(_, _, _, _)
ValidateFrom_DayOnly(p, sched, confl, isched) ==
    IF p = NumSlots THEN [schedule |-> sched, conflicts |-> confl]
    ELSE
      LET day == DayAt(p)
          time_slot == time_slots[IndexAt(p) + 1]
          slot == sched[day][time_slot]
          course == slot.course
          room == slot.room
          id == course.instructor_id
          seen == id \in DOMAIN isched
          overlap == seen /\ \E n \in 1..Len(isched[id]) :
                                isched[id][n][1] = day
          c1 == IF overlap
                THEN Append(confl, OverlapConflict(course, day, time_slot))
                ELSE confl
          isched1 == [x \in DOMAIN isched \cup {id} |->
                        IF x = id
                        THEN Append(IF seen THEN isched[id] ELSE <<>>,
                                    <<day, time_slot>>)
                        ELSE isched[x]]
          c2 == IF CapacityViolated(course, room)
                THEN Append(c1, CapacityConflict(course, room))
                ELSE c1
          sched1 == IF c2 # <<>>
                    THEN [sched EXCEPT ![day][time_slot].has_conflict = TRUE]
                    ELSE sched
      IN IF slot.course = None
         THEN ValidateFrom_DayOnly(p + 1, sched, confl, isched)
         ELSE ValidateFrom_DayOnly(p + 1, sched1, c2, isched1)

RECURSIVE ValidateFrom(_, _, _, _)
ValidateFrom(p, sched, confl, isched) ==
    IF p = NumSlots THEN [schedule |-> sched, conflicts |-> confl]
    ELSE
      LET day == DayAt(p)
          time_slot == time_slots[IndexAt(p) + 1]
          slot == sched[day][time_slot]
          course == slot.course
          room == slot.room
          id == course.instructor_id
          seen == id \in DOMAIN isched
          overlap == seen /\ \E n \in 1..Len(isched[id]) :
                                isched[id][n] = <<day, time_slot>>
          c1 == IF overlap
                THEN Append(confl, OverlapConflict(course, day, time_slot))
                ELSE confl
          isched1 == [x \in DOMAIN isched \cup {id} |->
                        IF x = id
                        THEN Append(IF seen THEN isched[id] ELSE <<>>,
                                    <<day, time_slot>>)
                        ELSE isched[x]]
          c2 == IF CapacityViolated(course, room)
                THEN Append(c1, CapacityConflict(course, room))
                ELSE c1
          sched1 == IF c2 # <<>>
                    THEN [sched EXCEPT ![day][time_slot].has_conflict = TRUE]
                    ELSE sched
      IN IF slot.course = None
         THEN ValidateFrom(p + 1, sched, confl, isched)
         ELSE ValidateFrom(p + 1, sched1, c2, isched1)

\* validate_schedule with the fault of passing over the slots an earlier
\* pass has marked ("if slot.course is None or slot.has_conflict: continue").
validate_schedule_SkipFlagged(sched) ==
    LET hidden == [day \in DaySet |-> [time_slot \in TimeSlotSet |->
                    IF sched[day][time_slot].has_conflict
                    THEN ScheduleSlot(day, time_slot)
                    ELSE sched[day][time_slot]]]
        v == ValidateFrom(0, hidden, <<>>, << >>)
    IN [schedule |->
            [day \in DaySet |-> [time_slot \in TimeSlotSet |->
                IF sched[day][time_slot].has_conflict
                THEN sched[day][time_slot]
                ELSE v.schedule[day][time_slot]]],
        conflicts |-> v.conflicts]

\* validate_schedule with the fault of marking the slots after the scan
\* ("if self.conflicts:" moved out of the loops, over every occupied slot).
validate_schedule_MarkAll(sched) ==
    LET v == ValidateFrom(0, sched, <<>>, << >>)
    IN [schedule |->
            [day \in DaySet |-> [time_slot \in TimeSlotSet |->
                IF v.conflicts # <<>> /\ sched[day][time_slot].course # None
                THEN [sched[day][time_slot] EXCEPT !.has_conflict = TRUE]
                ELSE sched[day][time_slot]]],
        conflicts |-> v.conflicts]

\* validate_schedule with the fault of lowering the flags first
\* ("slot.has_conflict = False" for every slot ahead of the scan).
validate_schedule_ResetsFlags(sched) ==
    ValidateFrom(0,
                 [day \in DaySet |-> [time_slot \in TimeSlotSet |->
                     [sched[day][time_slot] EXCEPT !.has_conflict = FALSE]]],
                 <<>>, << >>)

\* validate_schedule with the fault of taking the room out of a slot that
\* violates the lab capacity ("slot.room = None" after the append).
validate_schedule_DropsRoom(sched) ==
    LET v == ValidateFrom(0, sched, <<>>, << >>)
    IN [schedule |->
            [day \in DaySet |-> [time_slot \in TimeSlotSet |->
                IF /\ sched[day][time_slot].course # None
                   /\ CapacityViolated(sched[day][time_slot].course,
                                       sched[day][time_slot].room)
                THEN [v.schedule[day][time_slot] EXCEPT !.room = None]
                ELSE v.schedule[day][time_slot]]],
        conflicts |-> v.conflicts]

\* validate_schedule with the fault of leaving out "self.conflicts = []":
\* the scan appends to the list the engine holds.
validate_schedule_KeepsList(sched) == ValidateFrom(0, sched, conflicts, << >>)

\* "self.conflicts = []" and the scan; yields the new schedule and conflicts.
validate_schedule(sched) == ValidateFrom(0, sched, <<>>, << >>)

(***************************************************************************)
(* scheduler.py: the query surface                                          *)
(***************************************************************************)
GridCell(sched, insts, day, time_slot) ==
    LET slot == sched[day][time_slot]
        byId == InstructorsById(insts)
        id == slot.course.instructor_id
    IN IF slot.course = None THEN None
       ELSE [course |-> slot.course, room |-> slot.room,
             instructor |-> IF id \in DOMAIN byId THEN byId[id].name
                            ELSE <<"Instructor ", ToString(id)>>,
             has_conflict |-> slot.has_conflict]

\* get_schedule_grid with the fault of building each row from Friday to
\* Monday ("row.insert(0, ...)" for "row.append(...)").
get_schedule_grid_RowsReversed(sched, insts) ==
    [r \in 1..Len(time_slots) |-> [c \in 1..Len(days) |->
        GridCell(sched, insts, days[Len(days) + 1 - c], time_slots[r])]]

\* Rows are time slots, columns are days.
get_schedule_grid(sched, insts) ==
    [r \in 1..Len(time_slots) |-> [c \in 1..Len(days) |->
        GridCell(sched, insts, days[c], time_slots[r])]]

get_conflicts(confl) == confl

(***************************************************************************)
(* main.py: the timetable widget                                            *)
(***************************************************************************)
ExamBlockItem == [text |-> <<"EXAM BLOCK">>]

\* setup_table: 8 rows by 5 columns, mark_exam_block(4, 4) and (5, 4).
SetupTable ==
    [row \in 0..(Len(time_slots) - 1) |-> [col \in 0..(Len(days) - 1) |->
        IF col = 4 /\ row \in {4, 5} THEN ExamBlockItem ELSE None]]

\* clear_schedule_table: every item but the "EXAM BLOCK" ones is removed.
\* It touches the widget only, not Scheduler.schedule.
clear_schedule_table(table) ==
    [row \in DOMAIN table |-> [col \in DOMAIN table[row] |->
        IF table[row][col] # None /\ table[row][col].text = <<"EXAM BLOCK">>
        THEN table[row][col]
        ELSE None]]

\* The text display_schedule builds for a cell, and add_course_to_grid.
CourseItem(cell) ==
    [text |-> cell.course.code
              \o (IF cell.room # None THEN <<cell.room.id>> ELSE <<>>)
              \o cell.instructor
              \o (IF cell.course.is_lab THEN <<"[LAB SESSION]">> ELSE <<>>),
     has_conflict |-> cell.has_conflict]

display_schedule(table, sched, insts) ==
    LET grid == get_schedule_grid(sched, insts)
    IN [row \in DOMAIN table |-> [col \in DOMAIN table[row] |->
           IF grid[row + 1][col + 1] # None
           THEN CourseItem(grid[row + 1][col + 1])
           ELSE table[row][col]]]

(***************************************************************************)
(* main.py: handle_import_schedule                                          *)
(***************************************************************************)
\* json.load on the "schedule" object: a key that occurs twice keeps its
\* last value.  entries is the file's sequence of (day, time slot, value).
LoadEntries(entries) ==
    LET keys == {<<entries[n].day, entries[n].time_slot>> :
                    n \in 1..Len(entries)}
        Last(k) == CHOOSE n \in 1..Len(entries) :
                     /\ <<entries[n].day, entries[n].time_slot>> = k
                     /\ \A m \in (n + 1)..Len(entries) :
                           <<entries[m].day, entries[m].time_slot>> # k
    IN [k \in keys |-> entries[Last(k)].slot_data]

\* "Clear current schedule": only slots holding a course are reset.
ClearSchedule(sched) ==
    [day \in DaySet |-> [time_slot \in TimeSlotSet |->
        IF sched[day][time_slot].course # None
        THEN [sched[day][time_slot] EXCEPT !.course = None, !.room = None,
                                           !.has_conflict = FALSE]
        ELSE sched[day][time_slot]]]

FindCourseByCode(cs, course_code) ==
    LET hit == {n \in 1..Len(cs) : cs[n].code = course_code}
    IN IF hit = {} THEN None
       ELSE cs[CHOOSE n \in hit : \A m \in hit : n <= m]

\* "if room_id:" is false for a missing, null or empty room id; the file
\* model writes all three as "".
FindRoomById(rms, room_id) ==
    LET hit == {n \in 1..Len(rms) : rms[n].id = room_id}
    IN IF room_id = "" \/ hit = {} THEN None
       ELSE rms[CHOOSE n \in hit : \A m \in hit : n <= m]

\* "Import schedule from JSON": the loop over the loaded dictionary.
ImportInto(sched, cs, rms, loaded) ==
    [day \in DaySet |-> [time_slot \in TimeSlotSet |->
        LET k == <<day, time_slot>>
            slot_data == loaded[k]
            course == FindCourseByCode(cs, slot_data.course_code)
        IN IF k \notin DOMAIN loaded \/ slot_data = None \/ course = None
           THEN sched[day][time_slot]
           ELSE [sched[day][time_slot] EXCEPT
                    !.course = course,
                    !.room = FindRoomById(rms, slot_data.room_id),
                    !.has_conflict = slot_data.has_conflict]]]

(***************************************************************************)
(* The inputs: the collections the engine is constructed with and the      *)
(* schedule files the import handler is given.                              *)
(***************************************************************************)
CourseCatalogue ==
    << Course(<<"C", "S", "1", "L">>, 1, TRUE, 1),
       Course(<<"S", "E", "N", "G", "4">>, 1, FALSE, 4),
       Course(<<"C", "E", "N", "G", "3">>, 1, FALSE, 3),
       Course(<<"A", "L", "G", "1", "L">>, 1, TRUE, 2),
       Course(<<"A", "L", "G", "1">>, 1, FALSE, 2),
       Course(<<"C", "S", "1">>, 1, FALSE, 1),
       Course(<<"C", "S", "1", "2">>, 1, FALSE, 1),
       Course(<<"s", "e", "2">>, 2, FALSE, 2) >>

\* The catalogue's courses at the positions S, in catalogue order.
Pick(S) ==
    LET RECURSIVE From(_)
        From(n) == IF n > Len(CourseCatalogue) THEN <<>>
                   ELSE (IF n \in S THEN <<CourseCatalogue[n]>> ELSE <<>>)
                        \o From(n + 1)
    IN From(1)

\* The course collections the placement engine is checked on: every
\* selection of at most MaxCourses courses of the catalogue (codes are
\* unique).
CourseLists ==
    {Pick(S) : S \in {T \in SUBSET (1..Len(CourseCatalogue)) :
                        Cardinality(T) <= MaxCourses}}

\* The course collections the application is checked on: the empty one and
\* the runs of MaxCourses consecutive courses of the catalogue.
AppCourseLists ==
    {<<>>} \cup
    {Pick(a..(a + MaxCourses - 1)) :
        a \in 1..(Len(CourseCatalogue) - MaxCourses + 1)}

\* The room collections the application is checked on.  With the second
\* list no lab room is small enough for a lab course.
AppRoomLists ==
    { << Room("A101", 50, FALSE), Room("A102", 60, FALSE),
         Room("LAB60", 60, TRUE), Room("LAB1", 30, TRUE) >>,
      << Room("A101", 50, FALSE), Room("LAB60", 60, TRUE) >> }

\* The room collections the placement engine is checked on: with the last
\* list there is no room for a theory course.
RoomLists == AppRoomLists \cup { << Room("LAB1", 30, TRUE) >> }

InstructorLists ==
    { << Instructor(1, <<"Dr. Smith">>, {"Monday"}) >>,
      << Instructor(1, <<"Dr. Smith">>, {"Friday"}),
         Instructor(2, <<"Dr. Jones">>, {"Monday", "Friday"}) >>,
      << Instructor(1, <<"Dr. Smith">>, {}),
         Instructor(2, <<"Dr. Jones">>, {"Tuesday"}) >> }

SlotData(course_code, room_id, has_conflict) ==
    [course_code |-> course_code, room_id |-> room_id,
     has_conflict |-> has_conflict]

FileEntry(day, time_slot, slot_data) ==
    [day |-> day, time_slot |-> time_slot, slot_data |-> slot_data]

ImportPool ==
    << FileEntry("Monday", "08:30 - 09:20",
                 SlotData(<<"C", "S", "1">>, "A101", FALSE)),
       FileEntry("Monday", "08:30 - 09:20",
                 SlotData(<<"A", "L", "G", "1">>, "A101", TRUE)),
       FileEntry("Friday", "13:20 - 14:10",
                 SlotData(<<"C", "E", "N", "G", "3">>, "A101", FALSE)),
       FileEntry("Tuesday", "09:30 - 10:20",
                 SlotData(<<"A", "L", "G", "1", "L">>, "LAB60", FALSE)),
       FileEntry("Wednesday", "10:30 - 11:20",
                 SlotData(<<"A", "L", "G", "1", "L">>, "LAB60", FALSE)),
       FileEntry("Monday", "08:30 - 09:20", None) >>

\* The schedule files: a file without a "schedule" key, and files whose
\* "schedule" object lists at most MaxImport different entries of the pool,
\* in the pool's order (the order matters for a repeated key only).
ImportFiles ==
    {[has_schedule |-> FALSE, entries |-> <<>>]} \cup
    {[has_schedule |-> TRUE, entries |-> [n \in 1..Len(ix) |-> ImportPool[ix[n]]]] :
        ix \in {jx \in UNION {[1..m -> 1..Len(ImportPool)] : m \in 0..MaxImport} :
                    \A a, b \in DOMAIN jx : a < b => jx[a] < jx[b]}}

(***************************************************************************)
(* The state after BeePlanApp.__init__: the table set up, the data loaded  *)
(* and the Scheduler constructed.                                           *)
(***************************************************************************)
Constructed(course_lists, room_lists) ==
    /\ courses \in course_lists
    /\ rooms \in room_lists
    /\ instructors \in InstructorLists
    /\ schedule = EmptySchedule
    /\ conflicts = <<>>
    /\ schedule_table = SetupTable
    /\ pc = "idle"
    /\ sorted_courses = <<>>
    /\ course_idx = 0
    /\ instructor_daily_hours = << >>
    /\ success = FALSE
    /\ ops = 0
    /\ fresh_run = FALSE
    /\ last_op = "init"
    /\ engine2 = [state |-> "new", schedule |-> EmptySchedule,
                  conflicts |-> <<>>, success |-> FALSE]
    /\ returned = NoCall

Init == Constructed(AppCourseLists, AppRoomLists)

InitPlacement == Constructed(CourseLists, RoomLists)

\* A freshly constructed engine: the empty grid and no conflicts.
FreshEngine == schedule = EmptySchedule /\ conflicts = <<>>

(***************************************************************************)
(* main.py: handle_generate, up to the start of generate_schedule's loop   *)
(***************************************************************************)
HandleGenerate ==
    /\ pc = "idle"
    /\ ops < MaxOps
    /\ schedule_table' = clear_schedule_table(schedule_table)
    /\ sorted_courses' = SortCourses(courses)
    /\ instructor_daily_hours' = << >>
    /\ course_idx' = 0
    /\ pc' = "generate"
    /\ ops' = ops + 1
    /\ fresh_run' = FreshEngine
    /\ UNCHANGED <<courses, rooms, instructors, schedule, conflicts, success,
                   last_op>>
    /\ UNCHANGED engine2
    /\ returned' = NoCall

(***************************************************************************)
(* scheduler.py: generate_schedule, one iteration of                       *)
(* "for course in sorted_courses"                                           *)
(***************************************************************************)
\* GenerateStep with the fault of scanning the days in the order of a set
\* ("for day in set(self.days)"), which differs from one process to another:
\* the course goes to the first passing slot of whichever day with a passing
\* slot comes first.
GenerateStep_DaysAsSet ==
    /\ pc = "generate"
    /\ course_idx < Len(sorted_courses)
    /\ LET course == sorted_courses[course_idx + 1]
           theory_course == IF course.is_lab
                            THEN find_theory_course(courses, course)
                            ELSE None
           PassOn(day) == {i \in 0..(Len(time_slots) - 1) :
                            SlotPasses(schedule, rooms, instructors,
                                       instructor_daily_hours, course,
                                       theory_course, day, i)}
           days_ok == {day \in DaySet : PassOn(day) # {}}
       IN IF days_ok # {}
          THEN \E day \in days_ok :
                 LET i == CHOOSE i \in PassOn(day) :
                            \A j \in PassOn(day) : i <= j
                     time_slot == time_slots[i + 1]
                     room == find_suitable_room(schedule, rooms, course, day,
                                                time_slot)
                 IN /\ schedule' = PlaceCourse(schedule, day, time_slot,
                                               course, room)
                    /\ instructor_daily_hours' =
                           UpdateHours(instructor_daily_hours, course, day)
                    /\ UNCHANGED conflicts
          ELSE /\ conflicts' = Append(conflicts, UnplacedConflict(course))
               /\ UNCHANGED <<schedule, instructor_daily_hours>>
    /\ course_idx' = course_idx + 1
    /\ UNCHANGED <<courses, rooms, instructors, schedule_table, pc,
                   sorted_courses, success, ops, fresh_run, last_op>>
    /\ UNCHANGED engine2
    /\ returned' = NoCall

\* GenerateStep with the fault of ending the loop at the first course that
\* cannot be placed ("break" after the unplaced_course conflict).
GenerateStep_StopAtUnplaced ==
    /\ pc = "generate"
    /\ course_idx < Len(sorted_courses)
    /\ LET course == sorted_courses[course_idx + 1]
           theory_course == IF course.is_lab
                            THEN find_theory_course(courses, course)
                            ELSE None
           p == FirstFit(schedule, rooms, instructors,
                         instructor_daily_hours, course, theory_course)
           day == DayAt(p)
           time_slot == time_slots[IndexAt(p) + 1]
           room == find_suitable_room(schedule, rooms, course, day, time_slot)
       IN IF p >= 0
          THEN /\ schedule' = PlaceCourse(schedule, day, time_slot, course, room)
               /\ instructor_daily_hours' =
                      UpdateHours(instructor_daily_hours, course, day)
               /\ course_idx' = course_idx + 1
               /\ UNCHANGED conflicts
          ELSE /\ conflicts' = Append(conflicts, UnplacedConflict(course))
               /\ course_idx' = Len(sorted_courses)
               /\ UNCHANGED <<schedule, instructor_daily_hours>>
    /\ UNCHANGED <<courses, rooms, instructors, schedule_table, pc,
                   sorted_courses, success, ops, fresh_run, last_op>>
    /\ UNCHANGED engine2
    /\ returned' = NoCall

GenerateStep ==
    /\ pc = "generate"
    /\ course_idx < Len(sorted_courses)
    /\ LET course == sorted_courses[course_idx + 1]
           theory_course == IF course.is_lab
                            THEN find_theory_course(courses, course)
                            ELSE None
           p == FirstFit(schedule, rooms, instructors,
                         instructor_daily_hours, course, theory_course)
           day == DayAt(p)
           time_slot == time_slots[IndexAt(p) + 1]
           room == find_suitable_room(schedule, rooms, course, day, time_slot)
       IN IF p >= 0
          THEN /\ schedule' = PlaceCourse(schedule, day, time_slot, course, room)
               /\ instructor_daily_hours' =
                      UpdateHours(instructor_daily_hours, course, day)
               /\ UNCHANGED conflicts
          ELSE /\ conflicts' = Append(conflicts, UnplacedConflict(course))
               /\ UNCHANGED <<schedule, instructor_daily_hours>>
    /\ course_idx' = course_idx + 1
    /\ UNCHANGED <<courses, rooms, instructors, schedule_table, pc,
                   sorted_courses, success, ops, fresh_run, last_op>>
    /\ UNCHANGED engine2
    /\ returned' = NoCall

(***************************************************************************)
(* scheduler.py: the end of generate_schedule (validation, the return      *)
(* value) and the rest of handle_generate (display_schedule)               *)
(***************************************************************************)
\* GenerateReturn with the fault of taking the return value before the
\* validation ("ok = len(self.conflicts) == 0" ahead of _validate_schedule).
GenerateReturn_SuccessBeforeValidate ==
    /\ pc = "generate"
    /\ course_idx = Len(sorted_courses)
    /\ LET v == validate_schedule(schedule)
       IN /\ schedule' = v.schedule
          /\ conflicts' = v.conflicts
          /\ success' = (Len(conflicts) = 0)
          /\ schedule_table' =
                 display_schedule(schedule_table, v.schedule, instructors)
    /\ pc' = "idle"
    /\ sorted_courses' = <<>>
    /\ course_idx' = 0
    /\ instructor_daily_hours' = << >>
    /\ last_op' = "generate"
    /\ UNCHANGED <<courses, rooms, instructors, ops, fresh_run>>
    /\ UNCHANGED engine2
    /\ returned' = NoCall

GenerateReturn ==
    /\ pc = "generate"
    /\ course_idx = Len(sorted_courses)
    /\ LET v == validate_schedule(schedule)
       IN /\ schedule' = v.schedule
          /\ conflicts' = v.conflicts
          /\ success' = (Len(v.conflicts) = 0)
          /\ schedule_table' =
                 display_schedule(schedule_table, v.schedule, instructors)
    /\ pc' = "idle"
    /\ sorted_courses' = <<>>
    /\ course_idx' = 0
    /\ instructor_daily_hours' = << >>
    /\ last_op' = "generate"
    /\ UNCHANGED <<courses, rooms, instructors, ops, fresh_run>>
    /\ UNCHANGED engine2
    /\ returned' = NoCall

(***************************************************************************)
(* main.py: handle_import_schedule                                          *)
(***************************************************************************)
HandleImportSchedule(file) ==
    /\ pc = "idle"
    /\ ops < MaxOps
    /\ ops' = ops + 1
    /\ IF file.has_schedule
       THEN LET imported == ImportInto(ClearSchedule(schedule), courses,
                                       rooms, LoadEntries(file.entries))
            IN /\ schedule' = imported
               /\ schedule_table' =
                      display_schedule(schedule_table, imported, instructors)
               /\ last_op' = "import"
       ELSE \* "raise ValueError(...)": reported, nothing is changed
            /\ last_op' = "import_failed"
            /\ UNCHANGED <<schedule, schedule_table>>
    /\ UNCHANGED <<courses, rooms, instructors, conflicts, pc, sorted_courses,
                   course_idx, instructor_daily_hours, success, fresh_run>>
    /\ UNCHANGED engine2
    /\ returned' = NoCall

(***************************************************************************)
(* scheduler.py: _validate_schedule called on its own, as a collaborator   *)
(* re-running the validator does                                            *)
(***************************************************************************)
ValidateScheduleCall ==
    /\ pc = "idle"
    /\ ops < MaxOps
    /\ ops' = ops + 1
    /\ LET v == validate_schedule(schedule)
       IN /\ schedule' = v.schedule
          /\ conflicts' = v.conflicts
    /\ last_op' = "validate"
    /\ UNCHANGED <<courses, rooms, instructors, schedule_table, pc,
                   sorted_courses, course_idx, instructor_daily_hours,
                   success, fresh_run>>
    /\ UNCHANGED engine2
    /\ returned' = NoCall

(***************************************************************************)
(* scheduler.py: generate_schedule of a second, freshly constructed        *)
(* Scheduler that was given the same three collections.  The two engines   *)
(* share no state, so its call is taken as one step.                       *)
(***************************************************************************)
\* "for course in sorted_courses" from the n-th course on; st holds
\* self.schedule, self.conflicts and the local instructor_daily_hours.
RECURSIVE GenerateLoop(_, _, _, _, _, _)
GenerateLoop(cs, rms, insts, sorted, n, st) ==
    IF n > Len(sorted) THEN st
    ELSE
      LET course == sorted[n]
          theory_course == IF course.is_lab
                           THEN find_theory_course(cs, course)
                           ELSE None
          p == FirstFit(st.schedule, rms, insts, st.hours, course,
                        theory_course)
          day == DayAt(p)
          time_slot == time_slots[IndexAt(p) + 1]
          room == find_suitable_room(st.schedule, rms, course, day, time_slot)
          st1 == IF p >= 0
                 THEN [schedule |-> PlaceCourse(st.schedule, day, time_slot,
                                                course, room),
                       conflicts |-> st.conflicts,
                       hours |-> UpdateHours(st.hours, course, day)]
                 ELSE [st EXCEPT !.conflicts =
                                    Append(@, UnplacedConflict(course))]
      IN GenerateLoop(cs, rms, insts, sorted, n + 1, st1)

\* generate_schedule on engine e: the grid and the list it leaves and the
\* value it returns.
generate_schedule(e, cs, rms, insts) ==
    LET st == GenerateLoop(cs, rms, insts, SortCourses(cs), 1,
                           [schedule |-> e.schedule, conflicts |-> e.conflicts,
                            hours |-> << >>])
        v == validate_schedule(st.schedule)
    IN [schedule |-> v.schedule, conflicts |-> v.conflicts,
        success |-> (Len(v.conflicts) = 0)]

Engine2GenerateSchedule ==
    /\ engine2.state = "new"
    /\ LET r == generate_schedule(engine2, courses, rooms, instructors)
       IN engine2' = [state |-> "returned", schedule |-> r.schedule,
                      conflicts |-> r.conflicts, success |-> r.success]
    /\ UNCHANGED <<courses, rooms, instructors, schedule, conflicts,
                   schedule_table, pc, sorted_courses, course_idx,
                   instructor_daily_hours, success, ops, fresh_run, last_op>>
    /\ returned' = NoCall

(***************************************************************************)
(* scheduler.py: get_schedule_grid and get_conflicts called by a           *)
(* collaborator (display_schedule, the report generator).  A second query  *)
(* on the same state returns the same value and is left out.               *)
(***************************************************************************)
\* GetScheduleGridCall with the fault of resetting the flags it has
\* reported ("slot.has_conflict = False" after the cell is built).
GetScheduleGridCall_ClearsFlags ==
    /\ pc = "idle"
    /\ returned = NoCall
    /\ returned' = [call |-> "get_schedule_grid",
                    value |-> get_schedule_grid(schedule, instructors)]
    /\ schedule' = [day \in DaySet |-> [time_slot \in TimeSlotSet |->
                        [schedule[day][time_slot] EXCEPT
                            !.has_conflict = FALSE]]]
    /\ UNCHANGED <<courses, rooms, instructors, conflicts,
                   schedule_table, pc, sorted_courses, course_idx,
                   instructor_daily_hours, success, ops, fresh_run, last_op,
                   engine2>>

GetScheduleGridCall ==
    /\ pc = "idle"
    /\ returned = NoCall
    /\ returned' = [call |-> "get_schedule_grid",
                    value |-> get_schedule_grid(schedule, instructors)]
    /\ UNCHANGED <<courses, rooms, instructors, schedule, conflicts,
                   schedule_table, pc, sorted_courses, course_idx,
                   instructor_daily_hours, success, ops, fresh_run, last_op,
                   engine2>>

GetConflictsCall ==
    /\ pc = "idle"
    /\ returned = NoCall
    /\ returned' = [call |-> "get_conflicts",
                    value |-> get_conflicts(conflicts)]
    /\ UNCHANGED <<courses, rooms, instructors, schedule, conflicts,
                   schedule_table, pc, sorted_courses, course_idx,
                   instructor_daily_hours, success, ops, fresh_run, last_op,
                   engine2>>

Next ==
    \/ HandleGenerate
    \/ GenerateStep
    \/ GenerateReturn
    \/ \E file \in ImportFiles : HandleImportSchedule(file)
    \/ ValidateScheduleCall

Spec == Init /\ [][Next]_vars

\* The application with the engine's queries, on the larger room
\* collection.
InitQueries ==
    Constructed(AppCourseLists, {rms \in AppRoomLists : Len(rms) > 2})

NextQueries ==
    \/ Next
    \/ GetScheduleGridCall
    \/ GetConflictsCall

SpecQueries == InitQueries /\ [][NextQueries]_vars

(***************************************************************************)
(* data_manager.py: export_schedule_to_json, and the application with the  *)
(* export handler: a schedule file is exported and imported again           *)
(***************************************************************************)
\* The exported file: one entry per (day, time slot) in the order of the
\* loops, null for a slot without a course.  "course_name" is left out (the
\* courses of the model carry no name); a null "room_id" is written as ""
\* like every room id the import takes as missing.
export_schedule_to_json(sched, insts) ==
    [has_schedule |-> TRUE,
     entries |->
        [n \in 1..NumSlots |->
            LET day == DayAt(n - 1)
                time_slot == time_slots[IndexAt(n - 1) + 1]
                slot == sched[day][time_slot]
                byId == InstructorsById(insts)
                id == slot.course.instructor_id
            IN FileEntry(day, time_slot,
                 IF slot.course = None THEN None
                 ELSE [course_code |-> slot.course.code,
                       instructor_id |-> id,
                       instructor_name |->
                           IF id \in DOMAIN byId THEN byId[id].name
                           ELSE <<"Instructor ", ToString(id)>>,
                       room_id |-> IF slot.room # None THEN slot.room.id
                                   ELSE "",
                       room_capacity |-> IF slot.room # None
                                         THEN slot.room.capacity ELSE None,
                       is_lab |-> slot.course.is_lab,
                       year |-> slot.course.year,
                       has_conflict |-> slot.has_conflict])]]

\* handle_export_schedule with a JSON file chosen: the file is written and
\* nothing of the application changes.
HandleExportSchedule ==
    /\ pc = "idle"
    /\ returned = NoCall
    /\ returned' = [call |-> "export_schedule_to_json",
                    value |-> export_schedule_to_json(schedule, instructors)]
    /\ UNCHANGED <<courses, rooms, instructors, schedule, conflicts,
                   schedule_table, pc, sorted_courses, course_idx,
                   instructor_daily_hours, success, ops, fresh_run, last_op,
                   engine2>>

\* handle_import_schedule on the file that was just exported.
ImportExportedSchedule ==
    /\ returned.call = "export_schedule_to_json"
    /\ HandleImportSchedule(returned.value)

\* The room collections of the round trip: the application's full list, and
\* a list whose theory room has the empty string as its id.
RoundTripRoomLists ==
    {rms \in AppRoomLists : Len(rms) > 2}
    \cup { << Room("", 50, FALSE), Room("LAB1", 30, TRUE) >> }

InitRoundTrip == Constructed(AppCourseLists, RoundTripRoomLists)

NextRoundTrip ==
    \/ Next
    \/ HandleExportSchedule
    \/ ImportExportedSchedule

SpecRoundTrip == InitRoundTrip /\ [][NextRoundTrip]_vars

\* The placement engine alone: generate actions on every course collection.
NextPlacement ==
    \/ HandleGenerate
    \/ GenerateStep
    \/ GenerateReturn

SpecPlacement == InitPlacement /\ [][NextPlacement]_vars

\* Two engines constructed with the same collections (the application's
\* course collections, every room collection), each running
\* generate_schedule.
InitTwoEngines == Constructed(AppCourseLists, RoomLists)

NextTwoEngines ==
    \/ NextPlacement
    \/ Engine2GenerateSchedule

SpecTwoEngines == InitTwoEngines /\ [][NextTwoEngines]_vars

\* generate_schedule is straight-line code on one thread: once called, its
\* loop keeps iterating and its return is taken.  These are
\* WF_vars(GenerateStep) and WF_vars(GenerateReturn) with the guard of each
\* action written out for ENABLED (each action changes vars when its guard
\* holds).
LoopRunning == pc = "generate" /\ course_idx < Len(sorted_courses)

LoopEnded == pc = "generate" /\ course_idx = Len(sorted_courses)

SpecPlacementFair ==
    /\ SpecPlacement
    /\ []<>~LoopRunning \/ []<><<GenerateStep>>_vars
    /\ []<>~LoopEnded \/ []<><<GenerateReturn>>_vars

(***************************************************************************)
(* Vocabulary of the properties                                             *)
(***************************************************************************)
\* handle_generate has just returned.
GenerateReturned == pc = "idle" /\ last_op = "generate"

\* ... and its generate_schedule ran on a freshly constructed engine.
FreshGenerateReturned == GenerateReturned /\ fresh_run

SlotAt(day, i) == schedule[day][time_slots[i + 1]]

Indices == 0..(Len(time_slots) - 1)

IsPlaced(course) ==
    \E day \in DaySet, i \in Indices : SlotAt(day, i).course = course

CoursesOfInput == SeqToSet(courses)

ConflictsOfType(confl, type) ==
    {n \in 1..Len(confl) : confl[n].type = type}

ExamBlockEmpty ==
    /\ SlotAt("Friday", 4).course = None
    /\ SlotAt("Friday", 5).course = None

(***************************************************************************)
(* C1.  After generate_schedule returns, every course that is not in the   *)
(* grid has an unplaced_course conflict with its code in the conflict      *)
(* list.  The code does not do this: _validate_schedule starts with        *)
(* "self.conflicts = []" and drops the entries the loop appended.          *)
(***************************************************************************)
C1_UnplacedConflictsRetained ==
    GenerateReturned =>
        \A course \in CoursesOfInput :
            ~IsPlaced(course) =>
                \E n \in ConflictsOfType(conflicts, "unplaced_course") :
                    conflicts[n].course = course.code

(***************************************************************************)
(* C2.  After generate_schedule on a freshly constructed engine, Friday    *)
(* slots 4 and 5 hold no course, whatever the collections.                 *)
(***************************************************************************)
C2_ExamBlockFreeAfterGenerate == FreshGenerateReturned => ExamBlockEmpty

\* The scan reached Friday's afternoon: slots 3 and 6 were filled and the
\* exam block between them was passed over.
C2_Witness ==
    /\ FreshGenerateReturned
    /\ SlotAt("Friday", 3).course # None
    /\ SlotAt("Friday", 6).course # None
    /\ ExamBlockEmpty

(***************************************************************************)
(* C3.  In every state reachable by construction, generate_schedule and    *)
(* schedule import, the two exam-block slots hold no course.  The import   *)
(* handler breaks this: it writes any known course into any slot the file  *)
(* names, the exam block included.                                          *)
(***************************************************************************)
C3_ExamBlockAlwaysFree == ExamBlockEmpty

(***************************************************************************)
(* C4.  After generate_schedule on a freshly constructed engine, every     *)
(* occupied slot (d, t) holds a course whose instructor is in the          *)
(* instructor collection and is available on d.                            *)
(***************************************************************************)
C4_AvailabilityRespected ==
    FreshGenerateReturned =>
        \A day \in DaySet, i \in Indices :
            LET course == SlotAt(day, i).course
                byId == InstructorsById(instructors)
            IN course # None =>
                /\ course.instructor_id \in DOMAIN byId
                /\ day \in byId[course.instructor_id].availability

\* Some course was placed, on a day other than Monday (so days were skipped
\* for it), while a course of an instructor missing from the collection and
\* a course of an instructor without availability stayed out of the grid.
C4_Witness ==
    /\ FreshGenerateReturned
    /\ \E day \in DaySet \ {"Monday"}, i \in Indices :
            SlotAt(day, i).course # None
    /\ \E course \in CoursesOfInput :
            LET byId == InstructorsById(instructors)
            IN /\ ~IsPlaced(course)
               /\ \/ course.instructor_id \notin DOMAIN byId
                  \/ byId[course.instructor_id].availability = {}

(***************************************************************************)
(* C5.  After generate_schedule on a freshly constructed engine, a placed  *)
(* lab course for which _find_theory_course resolves a theory course has   *)
(* that theory course on the same day at a strictly smaller slot index     *)
(* (so a lab whose paired theory course is not placed is not placed).      *)
(***************************************************************************)
C5_LabAfterTheory ==
    FreshGenerateReturned =>
        \A day \in DaySet, i \in Indices :
            LET lab == SlotAt(day, i).course
                theory == find_theory_course(courses, lab)
            IN (lab # None /\ lab.is_lab /\ theory # None) =>
                \E j \in Indices : j < i /\ SlotAt(day, j).course = theory

\* A paired lab was placed, on the day of its theory course.
C5_Witness ==
    /\ FreshGenerateReturned
    /\ \E day \in DaySet, i \in Indices :
          LET lab == SlotAt(day, i).course
          IN /\ lab # None
             /\ lab.is_lab
             /\ find_theory_course(courses, lab) # None

\* A paired lab stayed out of the grid because its theory course was not
\* placed, while other courses were.
C5_UnplacedPair ==
    /\ FreshGenerateReturned
    /\ \E lab \in CoursesOfInput :
          /\ lab.is_lab
          /\ find_theory_course(courses, lab) # None
          /\ ~IsPlaced(find_theory_course(courses, lab))
          /\ ~IsPlaced(lab)
          /\ \E other \in CoursesOfInput : IsPlaced(other)

(***************************************************************************)
(* C6.  After generate_schedule on a freshly constructed engine, no        *)
(* instructor has more than 4 theory courses in the slots of one day.      *)
(***************************************************************************)
TheorySlots(instructor_id, day) ==
    {i \in Indices :
        /\ SlotAt(day, i).course # None
        /\ ~SlotAt(day, i).course.is_lab
        /\ SlotAt(day, i).course.instructor_id = instructor_id}

InstructorIds ==
    {c.instructor_id : c \in CoursesOfInput}
    \cup {instructors[n].id : n \in 1..Len(instructors)}

C6_DailyTheoryCap ==
    FreshGenerateReturned =>
        \A id \in InstructorIds, day \in DaySet :
            Cardinality(TheorySlots(id, day)) <= DailyTheoryLimit

\* An instructor reached the cap on a day and has a further theory course
\* that the cap kept off that day.
C6_Witness ==
    /\ FreshGenerateReturned
    /\ \E id \in InstructorIds, day \in DaySet :
          /\ Cardinality(TheorySlots(id, day)) = DailyTheoryLimit
          /\ \E c \in CoursesOfInput :
                ~c.is_lab /\ c.instructor_id = id /\ ~IsPlaced(c)

(***************************************************************************)
(* C7.  generate_schedule never overwrites an occupied slot: while it      *)
(* runs, a slot that holds a course keeps that course and its room.        *)
(***************************************************************************)
C7_NoOverwrite ==
    [][pc = "generate" =>
        \A day \in DaySet, time_slot \in TimeSlotSet :
            schedule[day][time_slot].course # None =>
                /\ schedule'[day][time_slot].course =
                       schedule[day][time_slot].course
                /\ schedule'[day][time_slot].room =
                       schedule[day][time_slot].room]_vars

\* generate_schedule ran on a grid that already held a course and placed
\* the same course again, in another slot.
C7_Witness ==
    /\ GenerateReturned
    /\ ~fresh_run
    /\ \E d1, d2 \in DaySet, i1, i2 \in Indices :
          /\ <<d1, i1>> # <<d2, i2>>
          /\ SlotAt(d1, i1).course # None
          /\ SlotAt(d1, i1).course = SlotAt(d2, i2).course

(***************************************************************************)
(* C8.  A generate_schedule call issued by handle_generate starts from an  *)
(* empty engine grid, so a second generate action does not see the courses *)
(* left by the first.  The code does not do this: handle_generate calls    *)
(* clear_schedule_table, which empties the table widget and leaves         *)
(* Scheduler.schedule as it is.                                             *)
(***************************************************************************)
C8_GenerateStartsFromEmptyGrid ==
    (pc = "generate" /\ course_idx = 0 /\ last_op = "generate") =>
        \A day \in DaySet, i \in Indices : SlotAt(day, i).course = None

(***************************************************************************)
(* C9.  After a schedule import completes, the conflict list is the one    *)
(* _validate_schedule computes from the imported grid.  The code does not  *)
(* do this: handle_import_schedule never calls the validator, so the list  *)
(* is the one the previous handler left.                                    *)
(***************************************************************************)
C9_ImportRevalidates ==
    (pc = "idle" /\ last_op = "import") =>
        conflicts = validate_schedule(schedule).conflicts

(***************************************************************************)
(* C10.  Importing a file that gives the slot key ("Monday",               *)
(* "08:30 - 09:20") twice, with two different courses of one instructor,   *)
(* and then running the validator yields exactly one instructor_overlap    *)
(* conflict.  The code yields none: the second value replaces the first    *)
(* when the file is loaded, the slot holds one course, and the validator   *)
(* never meets a (day, time) pair twice.                                    *)
(***************************************************************************)
DuplicatesMondayFirstSlot(file) ==
    \E a, b \in 1..Len(file.entries) :
        LET ea == file.entries[a]
            eb == file.entries[b]
            ca == FindCourseByCode(courses, ea.slot_data.course_code)
            cb == FindCourseByCode(courses, eb.slot_data.course_code)
        IN /\ a < b
           /\ ea.day = "Monday" /\ ea.time_slot = "08:30 - 09:20"
           /\ eb.day = "Monday" /\ eb.time_slot = "08:30 - 09:20"
           /\ ea.slot_data # None /\ eb.slot_data # None
           /\ ca # None /\ cb # None
           /\ ca # cb
           /\ ca.instructor_id = cb.instructor_id

C10_DuplicateKeyOneOverlap ==
    [][\A file \in ImportFiles :
        (DuplicatesMondayFirstSlot(file) /\ HandleImportSchedule(file)) =>
            Cardinality(ConflictsOfType(validate_schedule(schedule').conflicts,
                                        "instructor_overlap")) = 1]_vars

(***************************************************************************)
(* C11.  After a validator pass that produces one or more conflicts, every *)
(* occupied slot of the grid has has_conflict = true, the occupied slots   *)
(* scanned before the first conflict was found included.  The pass does    *)
(* not do this: "if self.conflicts: slot.has_conflict = True" runs inside  *)
(* the scan, so a slot visited while the list is still empty is not        *)
(* marked.                                                                  *)
(***************************************************************************)
\* A validator pass has just ended (on its own or as the end of
\* generate_schedule).
ValidatorPassed == pc = "idle" /\ last_op \in {"validate", "generate"}

\* A step that is a validator pass.
ValidatorStep ==
    \/ last_op' = "validate" /\ ValidateScheduleCall
    \/ pc = "generate" /\ pc' = "idle" /\ GenerateReturn

Positions == 0..(NumSlots - 1)

PosSlot(sched, p) == sched[DayAt(p)][time_slots[IndexAt(p) + 1]]

\* The scan positions whose slot makes the pass emit a conflict: a lab in a
\* room of more than 40 seats (the pass emits no instructor_overlap).
Offending(sched) ==
    {p \in Positions :
        /\ PosSlot(sched, p).course # None
        /\ PosSlot(sched, p).room # None
        /\ PosSlot(sched, p).course.is_lab
        /\ PosSlot(sched, p).room.capacity > 40}

FirstOffending(sched) ==
    CHOOSE p \in Offending(sched) : \A q \in Offending(sched) : p <= q

C11_AllOccupiedFlagged ==
    (ValidatorPassed /\ conflicts # <<>>) =>
        \A p \in Positions :
            PosSlot(schedule, p).course # None =>
                PosSlot(schedule, p).has_conflict

(***************************************************************************)
(* C11, amended.  A validator pass sets has_conflict on every occupied     *)
(* slot scanned at or after the first slot for which it emits a conflict;  *)
(* every other slot keeps the flag it had before the pass.                 *)
(***************************************************************************)
C11_FlaggedFromFirstConflict ==
    [][ValidatorStep =>
        \A p \in Positions :
            PosSlot(schedule', p).has_conflict =
                IF /\ Offending(schedule) # {}
                   /\ p >= FirstOffending(schedule)
                   /\ PosSlot(schedule, p).course # None
                THEN TRUE
                ELSE PosSlot(schedule, p).has_conflict]_vars

\* A pass found a conflict: an occupied slot scanned before the offending
\* one is still unmarked, the offending one is marked.
C11_Witness ==
    /\ ValidatorPassed
    /\ conflicts # <<>>
    /\ \E p, q \in Positions :
          /\ p < q
          /\ PosSlot(schedule, p).course # None
          /\ ~PosSlot(schedule, p).has_conflict
          /\ q = FirstOffending(schedule)
          /\ PosSlot(schedule, q).has_conflict

\* ... and an occupied slot scanned after the offending one was marked by
\* the pass (the file had it unmarked).
C11_LaterSlotFlagged ==
    /\ pc = "idle" /\ last_op = "validate"
    /\ conflicts # <<>>
    /\ \E q \in Positions :
          /\ q > FirstOffending(schedule)
          /\ PosSlot(schedule, q).course # None
          /\ PosSlot(schedule, q).has_conflict

(***************************************************************************)
(* C12.  Invoking _validate_schedule twice in succession, with no change   *)
(* of the grid in between, produces the same conflict list both times      *)
(* (same conflicts, same order): the list a pass leaves is the list a      *)
(* second pass over the grid it leaves (with the flags it has set)         *)
(* computes.  Checked at every pass, over grids filled by placement and by *)
(* import.                                                                  *)
(***************************************************************************)
C12_ValidateIdempotent ==
    [][ValidatorStep =>
        validate_schedule(schedule').conflicts = conflicts']_vars

\* A pass over an imported grid found a conflict and marked slots, and a
\* second pass over that grid finds the same conflict.
C12_Witness ==
    /\ pc = "idle" /\ last_op = "validate"
    /\ conflicts # <<>>
    /\ \E p \in Positions : PosSlot(schedule, p).has_conflict
    /\ validate_schedule(schedule).conflicts = conflicts

(***************************************************************************)
(* C13.  A validator pass emits exactly one capacity_violation conflict    *)
(* for each occupied slot whose course is a lab and whose room has a       *)
(* capacity above 40, in scan order and with that slot's course code, room *)
(* id and capacity, and none for any other slot; generate_schedule on a    *)
(* freshly constructed engine yields no capacity_violation.                *)
(***************************************************************************)
CapacityConflicts == ConflictsOfType(conflicts, "capacity_violation")

\* The k-th smallest element of a set of numbers.
Kth(S, k) == CHOOSE n \in S : Cardinality({m \in S : m <= n}) = k

C13_CapacityViolationPerSlot ==
    /\ ValidatorPassed =>
          /\ Cardinality(CapacityConflicts) =
                 Cardinality(Offending(schedule))
          /\ \A p \in Offending(schedule) :
                LET k == Cardinality({q \in Offending(schedule) : q <= p})
                    conflict == conflicts[Kth(CapacityConflicts, k)]
                IN /\ conflict.course = PosSlot(schedule, p).course.code
                   /\ conflict.room = PosSlot(schedule, p).room.id
                   /\ conflict.capacity = PosSlot(schedule, p).room.capacity
    /\ FreshGenerateReturned => CapacityConflicts = {}

\* A pass over a grid with two labs in a room of 60 seats and found both;
\* and a pass over a grid with a theory course in a room of 50 seats and a
\* lab in the large room found the lab only.
C13_Witness ==
    /\ ValidatorPassed
    /\ Cardinality(Offending(schedule)) = 2
    /\ Len(conflicts) = 2

C13_TheoryInLargeRoom ==
    /\ ValidatorPassed
    /\ Len(conflicts) = 1
    /\ \E p \in Positions :
          /\ PosSlot(schedule, p).course # None
          /\ ~PosSlot(schedule, p).course.is_lab
          /\ PosSlot(schedule, p).room # None
          /\ PosSlot(schedule, p).room.capacity > 40

\* generate_schedule on a fresh engine left a lab out of the grid although
\* a lab room, of 60 seats, was free.
C13_LabKeptOutOfLargeRoom ==
    /\ FreshGenerateReturned
    /\ \A n \in 1..Len(rooms) : rooms[n].is_lab => rooms[n].capacity > 40
    /\ \E n \in 1..Len(rooms) : rooms[n].is_lab
    /\ \E c \in CoursesOfInput :
          /\ c.is_lab /\ ~IsPlaced(c)
          /\ find_theory_course(courses, c) = None
          /\ \E day \in DaySet :
                is_instructor_available(instructors, c.instructor_id, day)

(***************************************************************************)
(* C14.  An engine with a course whose instructor_id matches no instructor *)
(* of the instructor collection is rejected at construction, so no such    *)
(* engine reaches generate_schedule.  The code does not do this:           *)
(* Scheduler.__init__ stores the collections unchecked, and                *)
(* generate_schedule runs, leaving the course out of the grid.             *)
(***************************************************************************)
C14_UnknownInstructorRejected ==
    pc = "generate" =>
        \A c \in CoursesOfInput :
            c.instructor_id \in DOMAIN InstructorsById(instructors)

(***************************************************************************)
(* C15.  generate_schedule always terminates and attempts every course     *)
(* exactly once: when its loop ends on a freshly constructed engine, each  *)
(* course is either in exactly one slot or has exactly one unplaced_course *)
(* conflict (so the courses after an unplaceable one are attempted too);   *)
(* no course of an instructor with an empty availability set is ever in    *)
(* the grid; and every call returns.                                        *)
(***************************************************************************)
\* The loop "for course in sorted_courses" of a run on a fresh engine has
\* ended; _validate_schedule has not run yet.
FreshLoopDone ==
    pc = "generate" /\ fresh_run /\ course_idx = Len(sorted_courses)

SlotsHolding(course) ==
    {p \in Positions : PosSlot(schedule, p).course = course}

UnplacedConflictsOf(course) ==
    {n \in ConflictsOfType(conflicts, "unplaced_course") :
        conflicts[n].course = course.code}

HasNoAvailability(course) ==
    \E n \in 1..Len(instructors) :
        /\ instructors[n].id = course.instructor_id
        /\ instructors[n].availability = {}

C15_EveryCourseAttemptedOnce ==
    /\ [](FreshLoopDone =>
            \A c \in CoursesOfInput :
                Cardinality(SlotsHolding(c))
                    + Cardinality(UnplacedConflictsOf(c)) = 1)
    /\ [](\A c \in CoursesOfInput : HasNoAvailability(c) => ~IsPlaced(c))
    /\ (pc = "generate") ~> GenerateReturned

\* The loop ended with a course of an instructor without availability
\* reported as unplaced and a course later in the processing order placed.
C15_Witness ==
    /\ FreshLoopDone
    /\ \E a, b \in 1..Len(sorted_courses) :
          /\ a < b
          /\ HasNoAvailability(sorted_courses[a])
          /\ UnplacedConflictsOf(sorted_courses[a]) # {}
          /\ IsPlaced(sorted_courses[b])

(***************************************************************************)
(* C16.  The boolean generate_schedule returns is true if and only if the  *)
(* conflict list get_conflicts returns right afterwards is empty.          *)
(***************************************************************************)
C16_SuccessIffNoConflicts ==
    GenerateReturned => (success <=> get_conflicts(conflicts) = <<>>)

\* generate_schedule returned false: it ran on a grid holding an imported
\* lab in a room of 60 seats, and the list holds the capacity_violation.
C16_Witness ==
    /\ GenerateReturned
    /\ ~success
    /\ get_conflicts(conflicts) # <<>>

\* generate_schedule returned true with an empty list although a course is
\* in no slot.
C16_TrueWithUnplacedCourse ==
    /\ GenerateReturned
    /\ success
    /\ get_conflicts(conflicts) = <<>>
    /\ \E c \in CoursesOfInput : ~IsPlaced(c)

QueryStep ==
    /\ returned = NoCall
    /\ returned' # NoCall
    /\ GetScheduleGridCall \/ GetConflictsCall

C18_QueriesReadOnly ==
    [][QueryStep =>
        /\ \A p \in Positions :
              /\ PosSlot(schedule', p).course = PosSlot(schedule, p).course
              /\ PosSlot(schedule', p).room = PosSlot(schedule, p).room
              /\ PosSlot(schedule', p).has_conflict =
                     PosSlot(schedule, p).has_conflict
        /\ conflicts' = conflicts]_vars

\* get_schedule_grid was called on a grid with a marked slot and a
\* non-empty conflict list, which are still there.
C18_Witness ==
    /\ returned.call = "get_schedule_grid"
    /\ conflicts # <<>>
    /\ \E p \in Positions :
          /\ PosSlot(schedule, p).course # None
          /\ PosSlot(schedule, p).has_conflict

\* get_conflicts was called and returned a non-empty list.
C18_ConflictsQueried ==
    /\ returned.call = "get_conflicts"
    /\ returned.value # <<>>
    /\ conflicts = returned.value

(***************************************************************************)
(* C19.  get_schedule_grid returns 8 rows of 5 cells; cell [r][c] is empty *)
(* exactly when the slot of day c and time slot r (canonical orders) holds *)
(* no course, and otherwise carries that slot's course, room and           *)
(* has_conflict flag.                                                       *)
(***************************************************************************)
C19_GridIsRowMajor ==
    returned.call = "get_schedule_grid" =>
        LET grid == returned.value
        IN /\ DOMAIN grid = 1..8
           /\ \A r \in 1..8 :
                /\ DOMAIN grid[r] = 1..5
                /\ \A c \in 1..5 :
                      LET slot == schedule[days[c]][time_slots[r]]
                      IN /\ grid[r][c] = None <=> slot.course = None
                         /\ slot.course # None =>
                               /\ grid[r][c].course = slot.course
                               /\ grid[r][c].room = slot.room
                               /\ grid[r][c].has_conflict = slot.has_conflict

\* The grid returned has a filled cell whose row and column differ, a cell
\* with the flag set and a cell without.
C19_Witness ==
    /\ returned.call = "get_schedule_grid"
    /\ \E r \in 1..8, c \in 1..5 :
          r # c /\ returned.value[r][c] # None
    /\ \E r \in 1..8, c \in 1..5 :
          /\ returned.value[r][c] # None
          /\ returned.value[r][c].has_conflict
    /\ \E r \in 1..8, c \in 1..5 :
          /\ returned.value[r][c] # None
          /\ ~returned.value[r][c].has_conflict

(***************************************************************************)
(* C20.  In every reachable state, every entry of the conflict list has a  *)
(* type of the taxonomy {unplaced_course, instructor_overlap,              *)
(* capacity_violation} and carries a message.                               *)
(***************************************************************************)
C20_ConflictsWellFormed ==
    \A n \in 1..Len(conflicts) :
        /\ "type" \in DOMAIN conflicts[n]
        /\ conflicts[n].type \in {"unplaced_course", "instructor_overlap",
                                  "capacity_violation"}
        /\ "message" \in DOMAIN conflicts[n]
        /\ conflicts[n].message # <<>>

\* generate_schedule is running and the list holds an unplaced_course
\* entry.
C20_Witness ==
    /\ pc = "generate"
    /\ ConflictsOfType(conflicts, "unplaced_course") # {}

\* A validator pass has left a capacity_violation entry.
C20_CapacityEntry ==
    /\ ValidatorPassed
    /\ ConflictsOfType(conflicts, "capacity_violation") # {}

(***************************************************************************)
(* C21.  generate_schedule attempts the courses in this order: every       *)
(* theory course before every lab course, within each group by ascending   *)
(* year, and courses with equal (is_lab, year) in their input order.       *)
(* (Course codes are unique in the collections.)                            *)
(***************************************************************************)
InputPos(course) == CHOOSE n \in 1..Len(courses) : courses[n] = course

\* One iteration of "for course in sorted_courses".
LoopStep == pc = "generate" /\ pc' = "generate" /\ course_idx' # course_idx

\* The course this step attempts: it is put into a slot that was empty, or
\* its unplaced_course conflict is appended.
Attempts(course) ==
    \/ /\ conflicts' = conflicts
       /\ \E p \in Positions :
             /\ PosSlot(schedule, p).course = None
             /\ PosSlot(schedule', p).course = course
    \/ /\ schedule' = schedule
       /\ Len(conflicts') = Len(conflicts) + 1
       /\ conflicts'[Len(conflicts')].type = "unplaced_course"
       /\ conflicts'[Len(conflicts')].course = course.code

AttemptOrderIsSorted ==
    pc = "generate" =>
        /\ Len(sorted_courses) = Len(courses)
        /\ SeqToSet(sorted_courses) = SeqToSet(courses)
        /\ \A a, b \in 1..Len(sorted_courses) :
              LET x == sorted_courses[a]
                  y == sorted_courses[b]
              IN a < b =>
                   /\ x.is_lab => y.is_lab
                   /\ x.is_lab = y.is_lab => x.year <= y.year
                   /\ (x.is_lab = y.is_lab /\ x.year = y.year)
                        => InputPos(x) < InputPos(y)

AvailableOn(course, day) ==
    \E n \in 1..Len(instructors) :
        /\ instructors[n].id = course.instructor_id
        /\ day \in instructors[n].availability

RoomExistsFor(course) ==
    \E n \in 1..Len(rooms) :
        /\ rooms[n].is_lab = course.is_lab
        /\ course.is_lab => rooms[n].capacity <= 40

CounterOf(instructor_id, day) ==
    IF /\ instructor_id \in DOMAIN instructor_daily_hours
       /\ day \in DOMAIN instructor_daily_hours[instructor_id]
    THEN instructor_daily_hours[instructor_id][day]
    ELSE 0

PassesAllChecks(course, p) ==
    LET day == DayAt(p)
        i == IndexAt(p)
        theory == find_theory_course(courses, course)
    IN /\ AvailableOn(course, day)
       /\ ~(day = "Friday" /\ i \in {4, 5})
       /\ PosSlot(schedule, p).course = None
       /\ (course.is_lab /\ theory # None) =>
             \E j \in 0..(i - 1) : SlotAt(day, j).course = theory
       /\ RoomExistsFor(course)
       /\ ~course.is_lab => CounterOf(course.instructor_id, day) < 4

\* The position at which this step fills a slot, or -1.
PlacedAt ==
    IF \E p \in Positions : PosSlot(schedule', p) # PosSlot(schedule, p)
    THEN CHOOSE p \in Positions : PosSlot(schedule', p) # PosSlot(schedule, p)
    ELSE -1

C22_FirstFit ==
    [][LoopStep =>
        LET course == sorted_courses[course_idx + 1]
        IN IF PlacedAt >= 0
           THEN /\ PosSlot(schedule', PlacedAt).course = course
                /\ PassesAllChecks(course, PlacedAt)
                /\ \A q \in 0..(PlacedAt - 1) : ~PassesAllChecks(course, q)
           ELSE \A q \in Positions : ~PassesAllChecks(course, q)]_vars

\* A course was placed on a day other than Monday and not in the day's
\* first slot, and another course was left out.
C22_Witness ==
    /\ FreshLoopDone
    /\ \E p \in Positions :
          /\ PosSlot(schedule, p).course # None
          /\ DayAt(p) # "Monday"
          /\ IndexAt(p) > 0
    /\ ConflictsOfType(conflicts, "unplaced_course") # {}

(***************************************************************************)
(* C23.  Every course placed by generate_schedule has the first room, in   *)
(* the room collection's order, whose is_lab equals the course's is_lab    *)
(* and, for a lab, whose capacity is at most 40; a course for which the    *)
(* collection has no such room is never placed.                             *)
(***************************************************************************)
RoomsFor(course) ==
    {n \in 1..Len(rooms) :
        /\ rooms[n].is_lab = course.is_lab
        /\ course.is_lab => rooms[n].capacity <= 40}

C23_FirstSuitableRoom ==
    \A p \in Positions :
        LET course == PosSlot(schedule, p).course
        IN course # None =>
             /\ RoomsFor(course) # {}
             /\ PosSlot(schedule, p).room =
                    rooms[CHOOSE n \in RoomsFor(course) :
                            \A m \in RoomsFor(course) : n <= m]

\* A lab sits in the small lab room, which comes after a lab room of 60
\* seats in the collection, and a theory course sits in the first of two
\* theory rooms.
C23_Witness ==
    /\ GenerateReturned
    /\ \E p \in Positions :
          /\ PosSlot(schedule, p).course # None
          /\ PosSlot(schedule, p).course.is_lab
          /\ \E n \in 1..Len(rooms) :
                /\ rooms[n] = PosSlot(schedule, p).room
                /\ \E m \in 1..(n - 1) : rooms[m].is_lab
    /\ \E p \in Positions :
          /\ PosSlot(schedule, p).course # None
          /\ ~PosSlot(schedule, p).course.is_lab
          /\ Cardinality(RoomsFor(PosSlot(schedule, p).course)) > 1

\* A lab was left out because the only lab room has 60 seats.
C23_NoRoomNotPlaced ==
    /\ GenerateReturned
    /\ \E c \in CoursesOfInput :
          /\ RoomsFor(c) = {}
          /\ ~IsPlaced(c)
          /\ \E d \in DaySet : AvailableOn(c, d)
          /\ find_theory_course(courses, c) = None

(***************************************************************************)
(* C24.  The pairing of a lab is resolved from the lab's code with only    *)
(* its trailing 'L' characters removed: for a lab whose code has an 'L'    *)
(* elsewhere too (lab "ALG1L", theory "ALG1", same instructor) the theory  *)
(* course with the trailing-L-stripped code is the pairing, and the lab is *)
(* placed only after it on the same day.  The code does not do this:       *)
(* "lab_course.code.replace('L', '')" removes every 'L' ("AG1"), no course *)
(* matches, and the lab is placed as an unpaired one.                       *)
(***************************************************************************)
RECURSIVE RStripL(_)
RStripL(code) ==
    IF code # <<>> /\ code[Len(code)] = "L"
    THEN RStripL(SubSeq(code, 1, Len(code) - 1))
    ELSE code

\* The theory courses whose code is the lab's with the trailing 'L's removed.
TrailingLPairings(lab) ==
    {th \in CoursesOfInput :
        /\ ~th.is_lab
        /\ th.code = RStripL(lab.code)
        /\ th.instructor_id = lab.instructor_id}

HasInnerL(code) ==
    \E n \in 1..Len(RStripL(code)) : code[n] = "L"

C24_TrailingLPairing ==
    FreshGenerateReturned =>
        \A lab \in CoursesOfInput :
            (lab.is_lab /\ HasInnerL(lab.code)) =>
                \A th \in TrailingLPairings(lab) :
                    /\ find_theory_course(courses, lab) = th
                    /\ IsPlaced(lab) =>
                          \E day \in DaySet, i, j \in Indices :
                              /\ j < i
                              /\ SlotAt(day, i).course = lab
                              /\ SlotAt(day, j).course = th

(***************************************************************************)
(* C25.  A lab for which no pairing is resolved (no theory course of the   *)
(* same instructor whose code is, or starts with, the lab's base code) is  *)
(* placed at the first slot of the scan that is empty, outside the exam    *)
(* block, on a day its instructor is available, provided the collection    *)
(* has a lab room of at most 40 seats; where the theory courses are does   *)
(* not matter.  It is left unplaced only if there is no such slot.         *)
(***************************************************************************)
Unpaired(lab) ==
    /\ lab.is_lab
    /\ \A n \in 1..Len(courses) :
          ~(/\ ~courses[n].is_lab
            /\ courses[n].instructor_id = lab.instructor_id
            /\ startswith(courses[n].code,
                          strip(replace(lab.code, "L", <<>>))))

FreeForLab(lab) ==
    {p \in Positions :
        /\ AvailableOn(lab, DayAt(p))
        /\ ~(DayAt(p) = "Friday" /\ IndexAt(p) \in {4, 5})
        /\ PosSlot(schedule, p).course = None
        /\ RoomExistsFor(lab)}

C25_UnpairedLabPlacedFreely ==
    [][(LoopStep /\ Unpaired(sorted_courses[course_idx + 1])) =>
        LET lab == sorted_courses[course_idx + 1]
        IN IF FreeForLab(lab) = {}
           THEN PlacedAt = -1
           ELSE /\ PlacedAt \in FreeForLab(lab)
                /\ \A q \in FreeForLab(lab) : PlacedAt <= q
                /\ PosSlot(schedule', PlacedAt).course = lab]_vars

\* An unpaired lab is on the grid while a theory course of its instructor
\* is in no earlier slot of the lab's day.
C25_Witness ==
    /\ FreshLoopDone
    /\ \E lab, th \in CoursesOfInput :
          /\ Unpaired(lab)
          /\ ~th.is_lab
          /\ th.instructor_id = lab.instructor_id
          /\ \E p \in Positions :
                /\ PosSlot(schedule, p).course = lab
                /\ \A q \in Positions :
                      PosSlot(schedule, q).course = th =>
                          DayAt(q) # DayAt(p) \/ q > p

(***************************************************************************)
(* C26.  While generate_schedule runs on a freshly constructed engine, the *)
(* counter of an instructor and a day equals the number of theory courses  *)
(* of that instructor placed on that day so far.  Labs do not count: a lab *)
(* is placed on a day on which its instructor's counter is already 4.      *)
(***************************************************************************)
C26_CounterIsTheoryCount ==
    (pc = "generate" /\ fresh_run) =>
        \A id \in InstructorIds, day \in DaySet :
            CounterOf(id, day) = Cardinality(TheorySlots(id, day))

\* The run has placed four theory courses of an instructor and then a lab
\* of the same instructor on one day; the counter of that day is 4.
C26_Witness ==
    /\ pc = "generate"
    /\ fresh_run
    /\ \E id \in InstructorIds, day \in DaySet :
          /\ CounterOf(id, day) = DailyTheoryLimit
          /\ Cardinality(TheorySlots(id, day)) = DailyTheoryLimit
          /\ \E i \in Indices :
                /\ SlotAt(day, i).course # None
                /\ SlotAt(day, i).course.is_lab
                /\ SlotAt(day, i).course.instructor_id = id

(***************************************************************************)
(* C27.  The boundary of the daily cap: when an instructor is available on *)
(* exactly one day, has n theory courses, the collection has a theory room *)
(* and no other instructor's course is on that day, a generate_schedule    *)
(* run on a fresh engine puts exactly min(n, 4) of them on that day, none  *)
(* on another day, and reports each of the others as unplaced.             *)
(***************************************************************************)
TheoryCoursesOf(instructor_id) ==
    {c \in CoursesOfInput : ~c.is_lab /\ c.instructor_id = instructor_id}

Min(a, b) == IF a <= b THEN a ELSE b

OnlyDayOf(n) == CHOOSE day \in DaySet : instructors[n].availability = {day}

C27_CapBoundary ==
    FreshLoopDone =>
        \A n \in 1..Len(instructors) :
            LET id == instructors[n].id
                day == OnlyDayOf(n)
                mine == TheoryCoursesOf(id)
            IN (/\ Cardinality(instructors[n].availability) = 1
                /\ \E r \in 1..Len(rooms) : ~rooms[r].is_lab
                /\ \A i \in Indices :
                      SlotAt(day, i).course # None =>
                          SlotAt(day, i).course.instructor_id = id)
               => /\ Cardinality(TheorySlots(id, day)) =
                        Min(Cardinality(mine), DailyTheoryLimit)
                  /\ \A c \in mine :
                        \/ /\ Cardinality(SlotsHolding(c)) = 1
                           /\ \A p \in SlotsHolding(c) : DayAt(p) = day
                           /\ UnplacedConflictsOf(c) = {}
                        \/ /\ SlotsHolding(c) = {}
                           /\ Cardinality(UnplacedConflictsOf(c)) = 1

\* An instructor available on one day only has five theory courses: four
\* are on that day and the fifth is reported as unplaced.
C27_Witness ==
    /\ FreshLoopDone
    /\ \E n \in 1..Len(instructors) :
          /\ Cardinality(instructors[n].availability) = 1
          /\ Cardinality(TheoryCoursesOf(instructors[n].id)) = 5
          /\ Cardinality(TheorySlots(instructors[n].id, OnlyDayOf(n))) = 4
          /\ \E c \in TheoryCoursesOf(instructors[n].id) :
                SlotsHolding(c) = {} /\ UnplacedConflictsOf(c) # {}

(***************************************************************************)
(* C28.  In generate_schedule every call of _check_elective_constraints    *)
(* sees an empty slot and returns true: whatever the years and the         *)
(* CENG/SENG codes of the courses, the slot at which the check is called   *)
(* is the slot the course is placed in.                                     *)
(***************************************************************************)
\* The checks of the loop body that come before the elective check
\* (scheduler.py lines 62-89), on the state in which the course is
\* attempted.
ChecksBeforeElective(course, p) ==
    LET day == DayAt(p)
        i == IndexAt(p)
        time_slot == time_slots[i + 1]
        theory_course == IF course.is_lab
                         THEN find_theory_course(courses, course)
                         ELSE None
    IN /\ is_instructor_available(instructors, course.instructor_id, day)
       /\ ~IsExamBlock(day, i)
       /\ ~SlotIsOccupied(schedule, day, time_slot)
       /\ (course.is_lab /\ theory_course # None)
            => lab_follows_theory(schedule, day, i, theory_course)
       /\ find_suitable_room(schedule, rooms, course, day, time_slot) # None
       /\ ~course.is_lab
            => check_instructor_daily_limit(course.instructor_id, day,
                                            instructor_daily_hours)

ElectiveCheckAt(course, p) ==
    check_elective_constraints(schedule, course, DayAt(p),
                               time_slots[IndexAt(p) + 1])

\* The scan reaches position p and calls the elective check there: the
\* earlier checks pass at p and the scan has not stopped before p.
ElectiveCheckCalled(course, p) ==
    /\ ChecksBeforeElective(course, p)
    /\ \A q \in 0..(p - 1) :
          ~(ChecksBeforeElective(course, q) /\ ElectiveCheckAt(course, q))

C28_ElectiveCheckNeverRejects ==
    [][LoopStep =>
        LET course == sorted_courses[course_idx + 1]
        IN \A p \in Positions :
              ElectiveCheckCalled(course, p) =>
                  /\ PosSlot(schedule, p).course = None
                  /\ ElectiveCheckAt(course, p)
                  /\ PosSlot(schedule', p).course = course]_vars

\* A third-year CENG course and a fourth-year SENG elective were placed
\* on the same day.
C28_Witness ==
    /\ FreshLoopDone
    /\ \E p, q \in Positions :
          /\ DayAt(p) = DayAt(q)
          /\ PosSlot(schedule, p).course # None
          /\ PosSlot(schedule, q).course # None
          /\ PosSlot(schedule, p).course.year = 3
          /\ PosSlot(schedule, q).course.year = 4
          /\ contains(upper(PosSlot(schedule, p).course.code),
                      <<"C", "E", "N", "G">>)
          /\ contains(upper(PosSlot(schedule, q).course.code),
                      <<"S", "E", "N", "G">>)

(***************************************************************************)
(* C29.  The conflict list a validator pass leaves is determined by the    *)
(* courses and rooms in the grid alone: it is the list of the              *)
(* capacity_violation entries of the offending slots in scan order,        *)
(* whatever the list held before the pass (unplaced_course entries of the  *)
(* run, entries of an earlier pass).  Two passes over equal grids          *)
(* therefore leave equal lists.                                             *)
(***************************************************************************)
RECURSIVE ConflictsOfGridFrom(_, _)
ConflictsOfGridFrom(sched, p) ==
    IF p = NumSlots THEN <<>>
    ELSE (IF p \in Offending(sched)
          THEN <<CapacityConflict(PosSlot(sched, p).course,
                                  PosSlot(sched, p).room)>>
          ELSE <<>>)
         \o ConflictsOfGridFrom(sched, p + 1)

ConflictsOfGrid(sched) == ConflictsOfGridFrom(sched, 0)

C29_ConflictsFunctionOfGrid ==
    [][ValidatorStep =>
        /\ conflicts' = ConflictsOfGrid(schedule)
        /\ conflicts' = ConflictsOfGrid(schedule')]_vars

\* generate_schedule has returned on a grid with an offending slot, with a
\* course left unplaced by the run: the list holds the capacity entries
\* only.
C29_Witness ==
    /\ GenerateReturned
    /\ \E c \in CoursesOfInput : ~IsPlaced(c)
    /\ Offending(schedule) # {}
    /\ conflicts # <<>>
    /\ \A n \in 1..Len(conflicts) : conflicts[n].type = "capacity_violation"

(***************************************************************************)
(* C30.  Export followed by import is a round trip: importing the file     *)
(* written by export_schedule_to_json into the engine (built from          *)
(* collections with unique course codes and unique room ids) restores in   *)
(* every slot the course, the room and has_conflict, and every slot that   *)
(* was empty at the export is empty.  The code does not do this for a room *)
(* whose id is the empty string: "if room_id:" takes the exported id as    *)
(* missing and the slot is restored without its room.                      *)
(***************************************************************************)
RoundTripStep ==
    /\ returned.call = "export_schedule_to_json"
    /\ last_op' = "import"
    /\ ImportExportedSchedule

UniqueIds ==
    /\ \A a, b \in 1..Len(courses) :
          courses[a].code = courses[b].code => a = b
    /\ \A a, b \in 1..Len(rooms) : rooms[a].id = rooms[b].id => a = b

SlotsRestored ==
    \A day \in DaySet, time_slot \in TimeSlotSet :
        /\ schedule'[day][time_slot].course = schedule[day][time_slot].course
        /\ schedule'[day][time_slot].room = schedule[day][time_slot].room
        /\ schedule'[day][time_slot].has_conflict =
               schedule[day][time_slot].has_conflict

C30_RoundTrip ==
    [][(RoundTripStep /\ UniqueIds) => SlotsRestored]_vars

\* With room ids other than the empty string the round trip holds.
C30_RoundTripOfNamedRooms ==
    [][(/\ RoundTripStep
        /\ UniqueIds
        /\ \A n \in 1..Len(rooms) : rooms[n].id # "") => SlotsRestored]_vars

(***************************************************************************)
(* C31.  Whatever grid placement or import has produced, a validator pass  *)
(* emits no instructor_overlap conflict: the pass visits every (day, time) *)
(* pair once, so no pair is recorded twice for an instructor.  The         *)
(* conflict list therefore never holds an instructor_overlap entry.        *)
(***************************************************************************)
C31_NoInstructorOverlap ==
    ConflictsOfType(conflicts, "instructor_overlap") = {}

\* A validator pass has run over a grid in which an instructor has sessions
\* in two slots of one day and in slots of two days, and has found a
\* conflict of another type.
C31_Witness ==
    /\ ValidatorPassed
    /\ conflicts # <<>>
    /\ \E p, q, r \in Positions :
          /\ p < q
          /\ PosSlot(schedule, p).course # None
          /\ PosSlot(schedule, q).course # None
          /\ PosSlot(schedule, r).course # None
          /\ DayAt(p) = DayAt(q)
          /\ DayAt(r) # DayAt(p)
          /\ PosSlot(schedule, p).course.instructor_id =
                 PosSlot(schedule, q).course.instructor_id
          /\ PosSlot(schedule, r).course.instructor_id =
                 PosSlot(schedule, p).course.instructor_id

(***************************************************************************)
(* C32.  During and after generate_schedule on a freshly constructed       *)
(* engine every course of the collection (codes are unique) is in at most  *)
(* one slot of the grid: no course is placed twice in one run.             *)
(***************************************************************************)
C32_PlacedAtMostOnce ==
    ((pc = "generate" \/ GenerateReturned) /\ fresh_run) =>
        \A c \in CoursesOfInput : Cardinality(SlotsHolding(c)) <= 1

\* A fresh run has returned with four or more courses on the grid and one
\* course in no slot.
C32_Witness ==
    /\ FreshGenerateReturned
    /\ Cardinality({c \in CoursesOfInput : SlotsHolding(c) # {}}) >= 4
    /\ \E c \in CoursesOfInput : SlotsHolding(c) = {}
    /\ \A c \in CoursesOfInput : Cardinality(SlotsHolding(c)) <= 1

(***************************************************************************)
(* C33.  A validator pass changes only the conflict list and the           *)
(* has_conflict flags of the slots: every slot has the same course and the *)
(* same room after _validate_schedule as before it, and the collections    *)
(* are untouched.                                                           *)
(***************************************************************************)
C33_ValidatorFrame ==
    [][ValidatorStep =>
        /\ \A p \in Positions :
              /\ PosSlot(schedule', p).course = PosSlot(schedule, p).course
              /\ PosSlot(schedule', p).room = PosSlot(schedule, p).room
              /\ PosSlot(schedule', p).day = PosSlot(schedule, p).day
              /\ PosSlot(schedule', p).time_slot =
                     PosSlot(schedule, p).time_slot
        /\ UNCHANGED <<courses, rooms, instructors>>]_vars

\* A pass has found conflicts and raised flags; the offending slot still
\* holds its lab and its room of more than 40 seats, and another occupied
\* slot, which does not offend, is on the grid.
C33_Witness ==
    /\ ValidatorPassed
    /\ conflicts # <<>>
    /\ \E p \in Offending(schedule) :
          /\ PosSlot(schedule, p).has_conflict
          /\ PosSlot(schedule, p).room.capacity > LabCapacityLimit
    /\ \E q \in Positions :
          /\ PosSlot(schedule, q).course # None
          /\ q \notin Offending(schedule)

(***************************************************************************)
(* C34.  The validator only raises has_conflict: no pass changes a slot's  *)
(* flag from true to false.  A slot whose flag was true before a pass (set *)
(* by an earlier pass or by import) has it true after the pass, also when  *)
(* the pass finds no conflict.                                              *)
(***************************************************************************)
C34_FlagsOnlyRaised ==
    [][ValidatorStep =>
        \A p \in Positions :
            PosSlot(schedule, p).has_conflict =>
                PosSlot(schedule', p).has_conflict]_vars

\* A direct validator pass has found no conflict and a slot, flagged by the
\* import before it, is still flagged.
C34_Witness ==
    /\ pc = "idle" /\ last_op = "validate"
    /\ conflicts = <<>>
    /\ Offending(schedule) = {}
    /\ \E p \in Positions :
          /\ PosSlot(schedule, p).course # None
          /\ PosSlot(schedule, p).has_conflict

=============================================================================
